---- MODULE Spec2Model ----
(***************************************************************************)
(* Feed_Api: the job orchestration engine of app.py, the file based job    *)
(* store of file_based_job_manager.py and the local execution dispatcher   *)
(* of run_script_local.py.                                                 *)
(*                                                                         *)
(* Every Flask request handler and every background thread is a process;   *)
(* a step of a process ends at each access to shared state (the job store, *)
(* the activity store, the two id mappings) and at each blocking call.     *)
(***************************************************************************)
EXTENDS Integers, Sequences, FiniteSets, Bags, TLC

\* ------------------------------------------------------------------ bounds
\* validate requests received over a run (each starts at most one job and one run)
MaxRequests == 2
\* the same, in the runs that follow one job through its retries
MaxRetryRequests == 5
\* the same, in the runs checked for liveness
MaxLiveRequests == 2
\* callbacks posted to /api/callback/feed by parties other than the dispatcher
MaxEnvCallbacks == 1
\* callbacks other parties post while their repeats are followed
MaxRepeatCallbacks == 2
\* distinct frontend job ids the callers use
MaxExt == 1
\* Flask worker threads serving /api/feed/validate at the same time
MaxReqThreads == 2
\* Flask worker threads serving /api/callback/feed at the same time
MaxCbThreads == 1
\* runs under way, or about to be started by a request being served, at the same time
MaxRuns == 2
\* iterations of the log polling loop that fit before its deadline
MaxPolls == 2
\* callback_receiver threads at the same time, where callbacks race
MaxRaceCbThreads == 2
\* threads inside the methods of the job manager at the same time
MaxStoreThreads == 2
\* job files the job manager is asked for
MaxStoreJobs == 2

\* ------------------------------------------------------- program constants
\* int(os.getenv('MAX_RETRY_COUNT', 3))
MAX_RETRY_COUNT == 3

\* class JobStatus
VALIDATING == "validating"
VALIDATED == "validated"
VALIDATION_FAILED == "validation_failed"
\* the status create_job writes
GENERATING == "generating"

\* class ActivitySource
UI == "ui"
CALLBACK == "callback"

\* ------------------------------------------------------------- value sets
\* a key that is not in a dict, a None: one for each kind of value, since a
\* tuple, a record and a string are never compared with each other
Absent == <<"absent">>
None == [none |-> TRUE]
Missing == "<missing>"
\* uuid.uuid4() values, in the order they are drawn
Uuid(n) == <<"uuid", n>>
MostRequests ==
    IF MaxRetryRequests > MaxRequests THEN MaxRetryRequests ELSE MaxRequests
Uuids == {Uuid(n) : n \in 1..MostRequests}
\* frontend job ids
ExtIds == {<<"ext", n>> : n \in 1..MaxExt}
\* an id that is neither
UnknownId == <<"unknown">>

\* paths are a prefix and a rest, so that str.startswith and the s3:// regular
\* expression have something to look at
S3(rest) == <<"s3://", rest>>
Local(rest) == <<"/", rest>>
EmptyStr == <<"", "">>
startswith_s3(p) == p[1] = "s3://"

\* the text parse_log_for_upload searches a log for
MarkerAt == "Script finished successfully at:"

\* a destination may hold any text after s3://, this text too
SrcPaths == {S3("a/in")}
DstPaths == {S3("a/out"), S3("b/" \o MarkerAt)}

\* callback_url is the caller's: whether it leads to this server's
\* /api/callback/feed or elsewhere shows when the dispatcher posts to it
Urls == {"http://cb"}

\* ------------------------------------------------------------------ state
VARIABLES
    jobs,                    \* jobs_dir: uuid -> job record, None while no file
    activities,              \* activities_dir: the bag of the activity records
    job_id_mapping,          \* frontend_job_id -> backend_job_id
    reverse_job_id_mapping,  \* backend_job_id -> frontend_job_id
    req,                     \* the threads serving trigger_feed_validation
    cb,                      \* the threads serving callback_receiver
    task,                    \* the background threads of execute_validation_script
    response,                \* the HTTP response sent last
    nreq,                    \* validate requests received so far
    ncb,                     \* foreign callbacks received so far
    script,                  \* the call of run_script.execute_and_notify in progress
    mgr,                     \* FileBasedJobManager at the grain of its file operations:
                             \*   the lock, the job files and the threads inside a method
    hist                     \* history of the run, read by the properties only:
                             \*   reqWrote[t], cbWrote[t]: the handler run of thread t
                             \*     has written to a store or a mapping
                             \*   reqSlept[t]: the handler run of thread t has slept
                             \*     the retry delay
                             \*   created_for[u]: the frontend id job u was created for
                             \*   last_callback[u]: the callback whose update was the last
                             \*     write to job u, and whether it came twice in a row
                             \*   received: the job_id of the callback that another
                             \*     party posted last

vars == <<jobs, activities, job_id_mapping, reverse_job_id_mapping,
          req, cb, task, response, nreq, ncb, hist, script, mgr>>

ReqThreads == 1..MaxReqThreads
CbThreads == 1..MaxCbThreads
RaceCbThreads == 1..MaxRaceCbThreads
AllCbThreads == CbThreads \cup RaceCbThreads
TaskIds == 1..MostRequests

\* ------------------------------------------------- file_based_job_manager
\* job_data['failure']: the dict {} has no 'validation_failed' key
EmptyFailure == [has_validation_failed |-> FALSE, validation_failed |-> <<>>]

\* job_data as trigger_feed_validation first writes it (validation_callback_url, which
\* no code reads back, is left out)
NewJobData(data) ==
    [validation_source_s3_path |-> data.source_s3_path,
     validation_destination_s3_path |-> data.destination_s3_path,
     failure |-> EmptyFailure]

\* FileBasedJobManager.create_job: the record it dumps
create_job(job_data) ==
    [status |-> GENERATING, retry_count |-> 0, job_data |-> job_data]

\* FileBasedJobManager.get_job: None when the file does not exist
get_job(store, job_id) ==
    IF job_id \in DOMAIN store THEN store[job_id] ELSE None

\* FileBasedJobManager.update_job: dict.update of the stored record, under the lock;
\* nothing when the file does not exist
update_job(store, job_id, updates) ==
    IF get_job(store, job_id) = None
    THEN store
    ELSE [store EXCEPT ![job_id] =
            [k \in DOMAIN @ |-> IF k \in DOMAIN updates THEN updates[k] ELSE @[k]]]

\* FileBasedJobManager.create_activity: one more file in activities_dir, under a
\* fresh uuid; the directory is the bag of the records in it
create_activity(acts, entity_id, source, action) ==
    acts (+) SetToBag({[entity_id |-> entity_id, source |-> source, action |-> action]})

\* uuid.uuid4() in create_job: a value no job has
NewUuid == Uuid(Cardinality({u \in Uuids : jobs[u] # None}) + 1)

\* ------------------------------------------------- trigger_feed_validation
\* request bodies: the well-formed ones, and one of each malformed kind
GoodRequests ==
    [job_id : ExtIds, source_s3_path : SrcPaths, destination_s3_path : DstPaths,
     callback_url : Urls, affiliate_merchant_id : {"m1"}]
BaseRequest == CHOOSE d \in GoodRequests : TRUE
BadRequests ==
    {[BaseRequest EXCEPT !.job_id = Absent],
     [BaseRequest EXCEPT !.source_s3_path = EmptyStr],
     [BaseRequest EXCEPT !.affiliate_merchant_id = Missing],
     [BaseRequest EXCEPT !.source_s3_path = Local("tmp/in")],
     [BaseRequest EXCEPT !.destination_s3_path = Local("tmp/out")]}
Requests == GoodRequests \cup BadRequests

\* missing = [k for k in required_fields if k not in data or not data.get(k)]
missing_fields(data) ==
    {k \in {"job_id", "source_s3_path", "destination_s3_path"} :
        data[k] = Absent \/ data[k] = EmptyStr}
    \cup {k \in {"callback_url", "affiliate_merchant_id"} :
        data[k] = Missing \/ data[k] = ""}

\* the first of source_s3_path, destination_s3_path that fails startswith('s3://')
bad_s3_field(data) ==
    IF ~startswith_s3(data.source_s3_path) THEN "source_s3_path"
    ELSE IF ~startswith_s3(data.destination_s3_path) THEN "destination_s3_path"
    ELSE Missing

\* the JSON envelopes trigger_feed_validation answers with
Envelope(route, response_status, err) ==
    [route |-> route, response_status |-> response_status, err |-> err]
Resp400(err) == Envelope("/api/feed/validate", 400, err)
Resp200 == Envelope("/api/feed/validate", 200, <<>>)
CallbackResp(response_status) == Envelope("/api/callback/feed", response_status, <<>>)

\* mutant: the gate only keeps finished jobs out
retry_status_ok_lax(existing_job) == existing_job.status # VALIDATED

\* if existing_job['status'] == JobStatus.VALIDATION_FAILED
retry_status_ok(existing_job) == existing_job.status = VALIDATION_FAILED

\* mutant: > for >=
retry_exhausted_off_by_one(existing_job) == existing_job.retry_count > MAX_RETRY_COUNT

\* if existing_job['retry_count'] >= max_retry_count
retry_exhausted(existing_job) == existing_job.retry_count >= MAX_RETRY_COUNT

\* retry_count = existing_job['retry_count'] + 1
next_retry_count(existing_job) == existing_job.retry_count + 1

\* job_data.update({...}) and the dict handed to update_job on a retry
retry_updates(existing_job, data) ==
    [status |-> VALIDATING,
     retry_count |-> next_retry_count(existing_job),
     job_data |-> [existing_job.job_data EXCEPT
                     !.validation_source_s3_path = data.source_s3_path,
                     !.validation_destination_s3_path = data.destination_s3_path]]

\* -------------------------------------------------------- run_script_local
\* a log file is its lines; a line is what the two regular expressions can tell apart
Started == <<"Script started at:">>
Finished == <<"Script finished successfully">>
FinishedAt == <<MarkerAt>>
Upload(path) == <<"Upload completed: ", path[1], path[2]>>
UploadedPath == S3("b/p")

\* the log files a worker run may leave behind
Logs ==
    {<<Started>>,
     <<Started, FinishedAt>>,
     <<Started, FinishedAt, Upload(UploadedPath)>>,
     <<Started, Finished, Upload(UploadedPath)>>,
     <<Started, FinishedAt, Upload(Local("tmp/p"))>>}

\* os.listdir(logs_dir) has no file of this run
NoLogFile == <<>>

\* the file execute_locally writes itself when the run left no log file
mock_log(s3_feed_file, s3_output_path) ==
    <<Started,
      <<"Processing partner: ", "">>,
      <<"Input file: ", s3_feed_file[1], s3_feed_file[2]>>,
      <<"Output path: ", s3_output_path[1], s3_output_path[2]>>,
      Finished,
      Upload(<<s3_output_path[1], s3_output_path[2] \o "/feed.csv">>)>>

\* the pieces of text of this model in which the text MarkerAt occurs
contains_marker(piece) ==
    piece \in {MarkerAt, "b/" \o MarkerAt, "b/" \o MarkerAt \o "/feed.csv"}

\* re.search(r"Script finished successfully at:", log_content)
success_found(log) ==
    \E i \in 1..Len(log) : \E j \in 1..Len(log[i]) : contains_marker(log[i][j])

\* [^\s]+ in the upload pattern: the text up to the first white space
until_space(rest) == IF contains_marker(rest) THEN "b/Script" ELSE rest

\* re.search(r"Upload completed: (s3://[^\s]+)", log_content)
upload_matches(log) ==
    {i \in 1..Len(log) : /\ log[i][1] = "Upload completed: "
                         /\ log[i][2] = "s3://"
                         /\ log[i][3] # ""}

\* parse_log_for_upload: the uploaded path, True, or None
ParsedTrue == <<"True">>
parse_log_for_upload(log) ==
    IF success_found(log)
    THEN IF upload_matches(log) # {}
         THEN LET i == CHOOSE m \in upload_matches(log) :
                          \A n \in upload_matches(log) : m <= n
              IN <<log[i][2], until_space(log[i][3])>>
         ELSE ParsedTrue
    ELSE Absent

\* send_callback: the payload it posts
callback_payload(job_id, type_, status, destination_s3_path, err_msg) ==
    [job_id |-> job_id, type |-> type_, status |-> status,
     result |-> [destination_s3_path |-> destination_s3_path], err |-> err_msg]

\* what execute_locally returns
RetSuccess == [key |-> "success", destination |-> EmptyStr]
RetDestination(path) == [key |-> "destination", destination |-> path]
RetError == [key |-> "error", destination |-> EmptyStr]

\* execute_locally after the log is read: the callback it sends and what it returns
local_outcome(job_id, result) ==
    IF result = Absent
    THEN [send |-> callback_payload(job_id, "feed_validation", "failed", EmptyStr,
                                    "Script execution completed but did not finish successfully"),
          ret |-> RetError]
    ELSE IF result = ParsedTrue
    THEN [send |-> callback_payload(job_id, "feed_validation", "success", EmptyStr, ""),
          ret |-> RetSuccess]
    ELSE [send |-> callback_payload(job_id, "feed_validation", "success", result, ""),
          ret |-> RetDestination(result)]

\* mutant: the except branches report the run as a success
local_failure_reports_success(job_id, error_msg) ==
    [send |-> callback_payload(job_id, "feed_validation", "success", EmptyStr, error_msg),
     ret |-> RetError]

\* the except branches of execute_locally: a failed callback with the error text
local_failure(job_id, error_msg) ==
    [send |-> callback_payload(job_id, "feed_validation", "failed", EmptyStr, error_msg),
     ret |-> RetError]

\* background(): if result and isinstance(result, dict) and result.get('destination')
script_succeeded(ret) == ret.key = "destination" /\ ret.destination # EmptyStr

\* ------------------------------ FileBasedJobManager, one file operation a step
StoreThreads == 1..MaxStoreThreads
StoreJobIds == {Uuid(n) : n \in 1..MaxStoreJobs}

\* a job file: not there, opened with 'w' and not yet dumped, or the status of
\* the whole record in it
NoFile == "<no file>"
Truncated == "<truncated>"
StoreStatuses == {VALIDATING, VALIDATED}

\* a thread outside the methods of the manager
IdleCaller == [pc |-> "idle", job_id |-> Absent, updates |-> "", job |-> "",
               result |-> ""]

\* __init__: the lock is free, jobs_dir is empty
IdleManager == [lock |-> 0,
                files |-> [u \in StoreJobIds |-> NoFile],
                th |-> [t \in StoreThreads |-> IdleCaller]]

\* ------------------------------------------------------------------- init
\* no call of run_script.execute_and_notify yet
IdleScript == [pc |-> "idle", opts |-> None, stdout |-> <<>>, destination |-> Absent,
               polls |-> 0, last_latest |-> Absent, last_log_tail |-> <<>>,
               cmds |-> 0, posted |-> <<>>, ret |-> None]
IdleReq == [pc |-> "idle", data |-> None, backend_job_id |-> Absent,
            existing_job |-> None]
IdleCb == [pc |-> "idle", payload |-> None, job |-> None, from |-> 0]
NoTask == [pc |-> "none", job_id |-> Absent, s3_feed_file |-> Absent,
           s3_output_path |-> Absent, no_log |-> FALSE, send |-> None, ret |-> None,
           in_try |-> FALSE]
DoneTask == [NoTask EXCEPT !.pc = "done"]

Init ==
    /\ jobs = [u \in Uuids |-> None]
    /\ activities = EmptyBag
    /\ job_id_mapping = [e \in ExtIds |-> Absent]
    /\ reverse_job_id_mapping = [u \in Uuids |-> Absent]
    /\ req = [t \in ReqThreads |-> IdleReq]
    /\ cb = [t \in AllCbThreads |-> IdleCb]
    /\ task = [k \in TaskIds |-> NoTask]
    /\ response = None
    /\ nreq = 0
    /\ ncb = 0
    /\ hist = [reqWrote |-> [t \in ReqThreads |-> FALSE],
               reqSlept |-> [t \in ReqThreads |-> FALSE],
               cbWrote |-> [t \in AllCbThreads |-> FALSE],
               created_for |-> [u \in Uuids |-> Absent],
               last_callback |-> [u \in Uuids |-> None],
               received |-> Absent]
    /\ script = IdleScript
    /\ mgr = IdleManager

\* ---------------------------------------- actions: trigger_feed_validation
\* threading.Thread(target=background, daemon=True).start()
NextTask == Cardinality({k \in TaskIds : task[k].pc # "none"}) + 1
execute_validation_script(job_id, callback_url) ==
    [task EXCEPT ![NextTask] = [NoTask EXCEPT !.pc = "start", !.job_id = job_id]]

\* return jsonify(...): the response is sent and the thread is free again
Respond(t, resp) ==
    /\ req' = [req EXCEPT ![t] = IdleReq]
    /\ response' = resp
    /\ hist' = [hist EXCEPT !.reqWrote[t] = FALSE, !.reqSlept[t] = FALSE]

\* runs started and not yet over, and requests that may still start one
LiveRuns == Cardinality({k \in TaskIds : task[k].pc \notin {"none", "done"}})
            + Cardinality({t \in ReqThreads : req[t].pc # "idle"})

\* lines 40-76: the field checks, the s3:// checks and job_id_mapping.get
ValidateReceive(t, max_requests) ==
    /\ req[t].pc = "idle"
    /\ nreq < max_requests
    /\ LiveRuns < MaxRuns
    /\ nreq' = nreq + 1
    /\ \E data \in Requests :
         IF missing_fields(data) # {}
         THEN Respond(t, Resp400(<<"Missing fields">>))
         ELSE IF bad_s3_field(data) # Missing
         THEN Respond(t, Resp400(<<bad_s3_field(data), "must start with s3://">>))
         ELSE /\ req' = [req EXCEPT ![t] =
                           [IdleReq EXCEPT
                              !.pc = IF job_id_mapping[data.job_id] # Absent
                                     THEN "get_job" ELSE "create_job",
                              !.data = data,
                              !.backend_job_id = job_id_mapping[data.job_id]]]
              /\ UNCHANGED <<response, hist>>
    /\ UNCHANGED <<jobs, activities, job_id_mapping, reverse_job_id_mapping,
                   cb, task, ncb>>
    /\ UNCHANGED <<script, mgr>>

\* mutant: the retry activity is recorded before the retry budget is looked at
ValidateGetJob_activity_first(t) ==
    /\ req[t].pc = "get_job"
    /\ LET existing_job == get_job(jobs, req[t].backend_job_id) IN
       IF existing_job = None
       THEN /\ req' = [req EXCEPT ![t].pc = "create_job"]
            /\ UNCHANGED <<response, hist, activities>>
       ELSE IF ~retry_status_ok(existing_job)
       THEN /\ Respond(t, Resp400(<<"Job cannot be retried in current status",
                                    existing_job.status>>))
            /\ UNCHANGED activities
       ELSE IF retry_exhausted(existing_job)
       THEN /\ Respond(t, Resp400(<<"Max retry count exceeded">>))
            /\ activities' = create_activity(activities, req[t].backend_job_id, UI, "retry")
       ELSE /\ req' = [req EXCEPT ![t].pc = "retry_update",
                                  ![t].existing_job = existing_job]
            /\ UNCHANGED <<response, hist, activities>>
    /\ UNCHANGED <<jobs, job_id_mapping, reverse_job_id_mapping, cb, task, nreq, ncb>>
    /\ UNCHANGED <<script, mgr>>

\* lines 76-95 and 142-152: get_job and the retry gate
ValidateGetJob(t) ==
    /\ req[t].pc = "get_job"
    /\ LET existing_job == get_job(jobs, req[t].backend_job_id) IN
       IF existing_job = None
       THEN /\ req' = [req EXCEPT ![t].pc = "create_job"]
            /\ UNCHANGED <<response, hist>>
       ELSE IF ~retry_status_ok(existing_job)
       THEN Respond(t, Resp400(<<"Job cannot be retried in current status",
                                 existing_job.status>>))
       ELSE IF retry_exhausted(existing_job)
       THEN Respond(t, Resp400(<<"Max retry count exceeded">>))
       ELSE /\ req' = [req EXCEPT ![t].pc = "retry_update",
                                  ![t].existing_job = existing_job]
            /\ UNCHANGED <<response, hist>>
    /\ UNCHANGED <<jobs, activities, job_id_mapping, reverse_job_id_mapping,
                   cb, task, nreq, ncb>>
    /\ UNCHANGED <<script, mgr>>

\* lines 95-111: job_manager.update_job(existing_job['id'], {...})
ValidateRetryUpdate(t) ==
    /\ req[t].pc = "retry_update"
    /\ jobs' = update_job(jobs, req[t].backend_job_id,
                          retry_updates(req[t].existing_job, req[t].data))
    /\ req' = [req EXCEPT ![t].pc = "retry_activity", ![t].existing_job = None]
    /\ hist' = [hist EXCEPT !.reqWrote[t] = TRUE,
                            !.last_callback[req[t].backend_job_id] = None]
    /\ UNCHANGED <<activities, job_id_mapping, reverse_job_id_mapping,
                   cb, task, response, nreq, ncb>>
    /\ UNCHANGED <<script, mgr>>

\* lines 113-125: the 'retry' activity
ValidateRetryActivity(t) ==
    /\ req[t].pc = "retry_activity"
    /\ activities' = create_activity(activities, req[t].backend_job_id, UI, "retry")
    /\ req' = [req EXCEPT ![t].pc = "retry_delay"]
    /\ UNCHANGED <<jobs, job_id_mapping, reverse_job_id_mapping,
                   cb, task, response, nreq, ncb, hist>>
    /\ UNCHANGED <<script, mgr>>

\* lines 128-129: time.sleep(retry_delay_ms / 1000), in the handler
ValidateRetryDelay(t) ==
    /\ req[t].pc = "retry_delay"
    /\ req' = [req EXCEPT ![t].pc = "retry_dispatch"]
    /\ hist' = [hist EXCEPT !.reqSlept[t] = TRUE]
    /\ UNCHANGED <<jobs, activities, job_id_mapping, reverse_job_id_mapping,
                   cb, task, response, nreq, ncb>>
    /\ UNCHANGED <<script, mgr>>

\* lines 130-141: the run is started and the 200 is returned
ValidateRetryDispatch(t) ==
    /\ req[t].pc = "retry_dispatch"
    /\ task' = execute_validation_script(req[t].backend_job_id, req[t].data.callback_url)
    /\ Respond(t, Resp200)
    /\ UNCHANGED <<jobs, activities, job_id_mapping, reverse_job_id_mapping,
                   cb, nreq, ncb>>
    /\ UNCHANGED <<script, mgr>>

\* lines 154-167: job_manager.create_job(...)
ValidateCreateJob(t) ==
    /\ req[t].pc = "create_job"
    /\ jobs' = [jobs EXCEPT ![NewUuid] = create_job(NewJobData(req[t].data))]
    /\ req' = [req EXCEPT ![t].pc = "map", ![t].backend_job_id = NewUuid]
    /\ hist' = [hist EXCEPT !.reqWrote[t] = TRUE,
                            !.created_for[NewUuid] = req[t].data.job_id]
    /\ UNCHANGED <<activities, job_id_mapping, reverse_job_id_mapping,
                   cb, task, response, nreq, ncb>>
    /\ UNCHANGED <<script, mgr>>

\* line 170: job_id_mapping[frontend_job_id] = backend_job_id
ValidateMap(t) ==
    /\ req[t].pc = "map"
    /\ job_id_mapping' = [job_id_mapping EXCEPT ![req[t].data.job_id] = req[t].backend_job_id]
    /\ req' = [req EXCEPT ![t].pc = "reverse_map"]
    /\ UNCHANGED <<jobs, activities, reverse_job_id_mapping, cb, task, response,
                   nreq, ncb, hist>>
    /\ UNCHANGED <<script, mgr>>

\* line 171: reverse_job_id_mapping[backend_job_id] = frontend_job_id
ValidateReverseMap(t) ==
    /\ req[t].pc = "reverse_map"
    /\ reverse_job_id_mapping' =
         [reverse_job_id_mapping EXCEPT ![req[t].backend_job_id] = req[t].data.job_id]
    /\ req' = [req EXCEPT ![t].pc = "new_dispatch"]
    /\ UNCHANGED <<jobs, activities, job_id_mapping, cb, task, response,
                   nreq, ncb, hist>>
    /\ UNCHANGED <<script, mgr>>

\* lines 173-198: the 'validation_trigger' activity, the run is started and the
\* 200 is returned
ValidateNewDispatch(t) ==
    /\ req[t].pc = "new_dispatch"
    /\ activities' = create_activity(activities, req[t].backend_job_id, UI,
                                     "validation_trigger")
    /\ task' = execute_validation_script(req[t].backend_job_id, req[t].data.callback_url)
    /\ Respond(t, Resp200)
    /\ UNCHANGED <<jobs, job_id_mapping, reverse_job_id_mapping, cb, nreq, ncb>>
    /\ UNCHANGED <<script, mgr>>

trigger_feed_validation(t, max_requests) ==
    \/ ValidateReceive(t, max_requests)
    \/ ValidateGetJob(t)
    \/ ValidateRetryUpdate(t)
    \/ ValidateRetryActivity(t)
    \/ ValidateRetryDelay(t)
    \/ ValidateRetryDispatch(t)
    \/ ValidateCreateJob(t)
    \/ ValidateMap(t)
    \/ ValidateReverseMap(t)
    \/ ValidateNewDispatch(t)

\* --------------------------------------------------------- callback_receiver
\* missing = [k for k in required_fields if k not in payload]
callback_missing(payload) ==
    (IF payload.job_id = Absent THEN {"job_id"} ELSE {})
    \cup {k \in {"type", "status"} : payload[k] = Missing}

\* lines 347-354: new_status, a name that stays unbound for a pair outside the table
new_status(payload) ==
    IF payload.type = "feed_validation" /\ payload.status = "success" THEN VALIDATED
    ELSE IF payload.type = "feed_validation" /\ payload.status = "failed"
    THEN VALIDATION_FAILED
    ELSE Missing

\* mutant: the entry is appended without the test of err_msg
failure_after_always_appends(failure, err_msg) ==
    [has_validation_failed |-> TRUE,
     validation_failed |->
        Append(failure.validation_failed,
               [code |-> "VALIDATION_ERROR", message |-> err_msg])]

\* lines 356-366: job_data['failure'] after a failed callback
failure_after(failure, err_msg) ==
    [has_validation_failed |-> TRUE,
     validation_failed |->
        IF err_msg # ""
        THEN Append(failure.validation_failed,
                    [code |-> "VALIDATION_ERROR", message |-> err_msg])
        ELSE failure.validation_failed]

\* lines 345-366: job_data as the handler rewrites its snapshot
callback_job_data(job_data, payload) ==
    IF payload.type # "feed_validation" THEN job_data
    ELSE IF payload.status = "success"
    THEN IF payload.result # None
         THEN [job_data EXCEPT
                 !.validation_destination_s3_path = payload.result.destination_s3_path]
         ELSE job_data
    ELSE IF payload.status = "failed"
    THEN [job_data EXCEPT !.failure = failure_after(@, payload.err)]
    ELSE job_data

\* mutant: retry_count is left as it was read
callback_updates_keeps_retry_count(job, payload) ==
    [status |-> new_status(payload),
     retry_count |-> job.retry_count,
     job_data |-> callback_job_data(job.job_data, payload)]

\* lines 368-373: the dict handed to update_job
callback_updates(job, payload) ==
    [status |-> new_status(payload),
     retry_count |-> 0,
     job_data |-> callback_job_data(job.job_data, payload)]

\* callbacks other parties post: results of remote workers, repeats, malformed ones
EnvJobIds == {u \in Uuids : jobs[u] # None} \cup ExtIds \cup {UnknownId}
EnvBase(id) == [job_id |-> id, type |-> "feed_validation", status |-> "failed",
                result |-> None, err |-> ""]
NotFinishedMsg == "Script execution completed but did not finish successfully"
EnvPayloads ==
    UNION {{EnvBase(id),
            [EnvBase(id) EXCEPT !.err = NotFinishedMsg,
                                !.result = [destination_s3_path |-> EmptyStr]],
            [EnvBase(id) EXCEPT !.status = "success"],
            [EnvBase(id) EXCEPT !.status = "success",
                                !.result = [destination_s3_path |-> UploadedPath]],
            [EnvBase(id) EXCEPT !.status = "running"],
            [EnvBase(id) EXCEPT !.type = "feed_generation", !.status = "success"]}
           : id \in EnvJobIds}
    \cup {EnvBase(Absent),
          [EnvBase(UnknownId) EXCEPT !.type = Missing],
          [EnvBase(UnknownId) EXCEPT !.status = Missing]}

\* send_callback after requests.post returned a 2xx with a JSON body: execute_locally
\* returns, and background() looks at what it returned
AfterPostOk(tk) ==
    IF script_succeeded(tk.ret)
    THEN DoneTask
    ELSE [tk EXCEPT !.pc = "conclude", !.send = None, !.in_try = FALSE]

\* mutant: background() swallows the exception of a failed delivery without
\* writing the status
AfterPostRaise_no_update(tk) ==
    IF tk.in_try
    THEN [tk EXCEPT !.pc = "post", !.in_try = FALSE,
                    !.send = local_failure(tk.job_id, "callback failed").send,
                    !.ret = local_failure(tk.job_id, "callback failed").ret]
    ELSE DoneTask

\* send_callback re-raises: inside the try of execute_locally the generic except
\* branch sends a failed callback; from an except branch the exception reaches
\* the except of background()
AfterPostRaise(tk) ==
    IF tk.in_try
    THEN [tk EXCEPT !.pc = "post", !.in_try = FALSE,
                    !.send = local_failure(tk.job_id, "callback failed").send,
                    !.ret = local_failure(tk.job_id, "callback failed").ret]
    ELSE [tk EXCEPT !.pc = "conclude", !.send = None]

\* response.raise_for_status() on the answer of callback_receiver
AfterReply(tk, response_status) ==
    IF response_status = 200 THEN AfterPostOk(tk) ELSE AfterPostRaise(tk)

\* the answer goes back to the caller of /api/callback/feed
Reply(from, response_status) ==
    IF from = 0 THEN task
    ELSE [task EXCEPT ![from] = AfterReply(@, response_status)]

\* mutant: the callback activity is recorded before the job is looked up
CallbackReceive_activity_first(t, max_callbacks) ==
    /\ cb[t].pc = "idle"
    /\ \E from \in {0} \cup {k \in TaskIds : task[k].pc = "post"} :
       \E payload \in IF from = 0 THEN EnvPayloads ELSE {task[from].send} :
         /\ from = 0 => ncb < max_callbacks
         /\ ncb' = IF from = 0 THEN ncb + 1 ELSE ncb
         /\ IF callback_missing(payload) # {}
            THEN /\ UNCHANGED <<cb, activities>>
                 /\ response' = CallbackResp(400)
                 /\ task' = Reply(from, 400)
            ELSE IF get_job(jobs, payload.job_id) = None
            THEN /\ UNCHANGED cb
                 /\ activities' = create_activity(activities, payload.job_id, CALLBACK,
                                                  payload.status)
                 /\ response' = CallbackResp(404)
                 /\ task' = Reply(from, 404)
            ELSE /\ cb' = [cb EXCEPT ![t] =
                             [IdleCb EXCEPT !.pc = "activity", !.payload = payload,
                                            !.job = get_job(jobs, payload.job_id),
                                            !.from = from]]
                 /\ task' = IF from = 0 THEN task
                            ELSE [task EXCEPT ![from].pc = "wait"]
                 /\ UNCHANGED <<response, activities>>
         /\ hist' = [hist EXCEPT !.received = IF from = 0 THEN payload.job_id ELSE @]
    /\ UNCHANGED <<jobs, job_id_mapping, reverse_job_id_mapping, req, nreq>>
    /\ UNCHANGED <<script, mgr>>

\* lines 286-324: the field check and get_job
CallbackReceive(t, max_callbacks) ==
    /\ cb[t].pc = "idle"
    /\ \E from \in {0} \cup {k \in TaskIds : task[k].pc = "post"} :
       \E payload \in IF from = 0 THEN EnvPayloads ELSE {task[from].send} :
         /\ from = 0 => ncb < max_callbacks
         /\ ncb' = IF from = 0 THEN ncb + 1 ELSE ncb
         /\ IF callback_missing(payload) # {}
            THEN /\ UNCHANGED cb
                 /\ response' = CallbackResp(400)
                 /\ task' = Reply(from, 400)
            ELSE IF get_job(jobs, payload.job_id) = None
            THEN /\ UNCHANGED cb
                 /\ response' = CallbackResp(404)
                 /\ task' = Reply(from, 404)
            ELSE /\ cb' = [cb EXCEPT ![t] =
                             [IdleCb EXCEPT !.pc = "activity", !.payload = payload,
                                            !.job = get_job(jobs, payload.job_id),
                                            !.from = from]]
                 /\ task' = IF from = 0 THEN task
                            ELSE [task EXCEPT ![from].pc = "wait"]
                 /\ UNCHANGED response
         /\ hist' = [hist EXCEPT !.received = IF from = 0 THEN payload.job_id ELSE @]
    /\ UNCHANGED <<jobs, activities, job_id_mapping, reverse_job_id_mapping, req, nreq>>
    /\ UNCHANGED <<script, mgr>>

\* lines 329-342: the activity with source = callback
CallbackActivity(t) ==
    /\ cb[t].pc = "activity"
    /\ activities' = create_activity(activities, cb[t].payload.job_id, CALLBACK,
                                     cb[t].payload.status)
    /\ cb' = [cb EXCEPT ![t].pc = "update"]
    /\ hist' = [hist EXCEPT !.cbWrote[t] = TRUE]
    /\ UNCHANGED <<jobs, job_id_mapping, reverse_job_id_mapping, req, task, response,
                   nreq, ncb>>
    /\ UNCHANGED <<script, mgr>>

\* thread t is about to apply the payload that was applied to the job last, to
\* the job as that application left it
SecondInARow(t) ==
    /\ cb[t].pc = "update"
    /\ hist.last_callback[cb[t].payload.job_id] # None
    /\ hist.last_callback[cb[t].payload.job_id].payload = cb[t].payload
    /\ cb[t].job = jobs[cb[t].payload.job_id]

\* lines 344-385: the status table and update_job; the read of the unbound
\* new_status raises, which Flask answers with a 500
CallbackUpdate(t) ==
    /\ cb[t].pc = "update"
    /\ IF new_status(cb[t].payload) = Missing
       THEN /\ response' = CallbackResp(500)
            /\ task' = Reply(cb[t].from, 500)
            /\ hist' = [hist EXCEPT !.cbWrote[t] = FALSE]
            /\ UNCHANGED jobs
       ELSE /\ jobs' = update_job(jobs, cb[t].payload.job_id,
                                  callback_updates(cb[t].job, cb[t].payload))
            /\ response' = CallbackResp(200)
            /\ task' = Reply(cb[t].from, 200)
            /\ hist' = [hist EXCEPT
                          !.cbWrote[t] = FALSE,
                          !.last_callback[cb[t].payload.job_id] =
                              [payload |-> cb[t].payload, twice |-> SecondInARow(t)]]
    /\ cb' = [cb EXCEPT ![t] = IdleCb]
    /\ UNCHANGED <<activities, job_id_mapping, reverse_job_id_mapping, req, nreq, ncb>>
    /\ UNCHANGED <<script, mgr>>

callback_receiver(t, max_callbacks) ==
    \/ CallbackReceive(t, max_callbacks)
    \/ CallbackActivity(t)
    \/ CallbackUpdate(t)

\* ------------------------------------------------ execute_validation_script
\* lines 231-254: get_job and the opts of the run
BackgroundStart(k) ==
    /\ task[k].pc = "start"
    /\ LET job == get_job(jobs, task[k].job_id) IN
       task' = [task EXCEPT ![k] =
                  IF job = None THEN DoneTask
                  ELSE [@ EXCEPT !.pc = "run",
                                 !.s3_feed_file =
                                     job.job_data.validation_source_s3_path,
                                 !.s3_output_path =
                                     job.job_data.validation_destination_s3_path]]
    /\ UNCHANGED <<jobs, activities, job_id_mapping, reverse_job_id_mapping,
                   req, cb, response, nreq, ncb, hist>>
    /\ UNCHANGED <<script, mgr>>

\* run_script_local.py lines 117-151 and 169-179: the worker command ends (exit 0,
\* an exception, a timeout), the log is found or written, read and parsed
ExecuteLocally(k) ==
    /\ task[k].pc = "run"
    /\ \E cmd \in {"ok", "failed", "timeout"} :
       \E log \in Logs \cup {NoLogFile} :
         /\ cmd # "ok" => log = NoLogFile
         /\ LET log_content == IF log = NoLogFile
                               THEN mock_log(task[k].s3_feed_file,
                                             task[k].s3_output_path)
                               ELSE log
                out == IF cmd = "ok"
                       THEN local_outcome(task[k].job_id,
                                          parse_log_for_upload(log_content))
                       ELSE IF cmd = "timeout"
                       THEN local_failure(task[k].job_id, "Script execution timed out")
                       ELSE local_failure(task[k].job_id, "Command failed")
            IN task' = [task EXCEPT ![k] =
                          [@ EXCEPT !.pc = "post", !.s3_feed_file = Absent,
                                    !.s3_output_path = Absent,
                                    !.no_log = (cmd = "ok" /\ log = NoLogFile),
                                    !.send = out.send, !.ret = out.ret,
                                    !.in_try = (cmd = "ok")]]
    /\ UNCHANGED <<jobs, activities, job_id_mapping, reverse_job_id_mapping,
                   req, cb, response, nreq, ncb, hist>>
    /\ UNCHANGED <<script, mgr>>

\* run_script_local.py lines 52-59: requests.post or raise_for_status raises
SendCallbackRaises(k) ==
    /\ task[k].pc = "post"
    /\ task' = [task EXCEPT ![k] = AfterPostRaise(@)]
    /\ UNCHANGED <<jobs, activities, job_id_mapping, reverse_job_id_mapping,
                   req, cb, response, nreq, ncb, hist>>
    /\ UNCHANGED <<script, mgr>>

\* run_script_local.py lines 52-56: a server that is not this one accepts the POST
SendCallbackElsewhere(k) ==
    /\ task[k].pc = "post"
    /\ task' = [task EXCEPT ![k] = AfterPostOk(@)]
    /\ UNCHANGED <<jobs, activities, job_id_mapping, reverse_job_id_mapping,
                   req, cb, response, nreq, ncb, hist>>
    /\ UNCHANGED <<script, mgr>>

\* lines 263-277: the run did not return a destination, or raised
BackgroundConclude(k) ==
    /\ task[k].pc = "conclude"
    /\ jobs' = update_job(jobs, task[k].job_id, [status |-> VALIDATION_FAILED])
    /\ task' = [task EXCEPT ![k] = DoneTask]
    /\ hist' = [hist EXCEPT !.last_callback[task[k].job_id] = None]
    /\ UNCHANGED <<activities, job_id_mapping, reverse_job_id_mapping,
                   req, cb, response, nreq, ncb>>
    /\ UNCHANGED <<script, mgr>>

background(k) ==
    \/ BackgroundStart(k)
    \/ ExecuteLocally(k)
    \/ SendCallbackRaises(k)
    \/ SendCallbackElsewhere(k)
    \/ BackgroundConclude(k)

\* ------------------------------------------- actions: run_script.py
\* the opts a caller hands to run_script.execute_and_notify: 'mock', whether
\* ec2_host and key_path are there, whether callback_url is, job_id and type
ScriptOpts ==
    [mock : BOOLEAN, ec2 : BOOLEAN, callback_url : BOOLEAN, job_id : {42},
     type : {"feed_generation", "feed_validation"}]

\* lines 69-74: what mock mode makes up
MockStdout == <<<<"Download completed: /tmp/mock_feed.xml.gz">>,
                <<"Stats file created: /tmp/mock_stats.txt">>,
                <<"Uploading stats to S3...">>,
                Upload(S3("mock-bucket/mock_path/mock_stats.txt"))>>
MockDestination == S3("mock-bucket/mock_path/mock_stats.txt")

\* what the remote script may print
Stdouts == {<<>>, <<Upload(UploadedPath)>>, <<Upload(Local("tmp/p"))>>}

\* the path that ls -t ... | head -n1 prints
LogPath == <<"logs/latest.log">>

\* the text of an error and the log tail send_callback is given with it
ErrMsg(msg, tail) == [msg |-> msg, tail |-> tail]
NoErr == ErrMsg("", <<>>)

\* lines 122-123: re.search(r"Upload completed:\s*(s3://\S+)", stdout), group(1) or None
stdout_destination(stdout) ==
    IF upload_matches(stdout) # {}
    THEN LET i == CHOOSE m \in upload_matches(stdout) :
                     \A n \in upload_matches(stdout) : m <= n
         IN <<stdout[i][2], stdout[i][3]>>
    ELSE Absent

\* line 168: re.search(r"Script finished successfully", last_log_tail)
marker_found(log) == \E i \in 1..Len(log) : log[i] \in {Finished, FinishedAt}

\* run_script.send_callback: nothing without a callback_url; else the payload is
\* POSTed, and an exception of the POST is logged and swallowed
script_send(posted, opts, status, destination_s3_path, err_msg) ==
    IF ~opts.callback_url THEN posted
    ELSE Append(posted,
                [job_id |-> opts.job_id, type |-> opts.type, status |-> status,
                 result |-> [destination_s3_path |->
                                IF destination_s3_path = Absent THEN EmptyStr
                                ELSE destination_s3_path],
                 err |-> err_msg])

\* the dict execute_and_notify returns
ScriptRet(stdout, destination, log) ==
    [stdout |-> stdout, destination |-> destination, log |-> log]

\* the except of lines 181-184: a failed callback with str(e), and the exception
\* goes on to the caller
ScriptRaise(sc, msg) ==
    [sc EXCEPT !.pc = "raised",
               !.posted = script_send(sc.posted, sc.opts, "failed", Absent,
                                      ErrMsg(msg, <<>>))]

ServerVars == <<jobs, activities, job_id_mapping, reverse_job_id_mapping,
                req, cb, task, response, nreq, ncb, hist>>

\* mutant: opts['mock'] is not looked at
ScriptCall_ignores_mock ==
    /\ script.pc = "idle"
    /\ \E opts \in ScriptOpts :
         script' =
           IF ~opts.ec2
           THEN ScriptRaise([script EXCEPT !.opts = opts],
                            "Missing ec2_host or key_path")
           ELSE [script EXCEPT !.pc = "scp", !.opts = opts]
    /\ UNCHANGED <<ServerVars, mgr>>

\* lines 53-83: the call; mock mode, and the check of ec2_host and key_path
ScriptCall ==
    /\ script.pc = "idle"
    /\ \E opts \in ScriptOpts :
         script' =
           IF opts.mock
           THEN [script EXCEPT
                   !.pc = "returned", !.opts = opts,
                   !.posted = script_send(script.posted, opts, "success",
                                          MockDestination, NoErr),
                   !.ret = ScriptRet(MockStdout, MockDestination, Absent)]
           ELSE IF ~opts.ec2
           THEN ScriptRaise([script EXCEPT !.opts = opts],
                            "Missing ec2_host or key_path")
           ELSE [script EXCEPT !.pc = "scp", !.opts = opts]
    /\ UNCHANGED <<ServerVars, mgr>>

\* lines 106-108: run_cmd(scp_cmd)
ScriptScp ==
    /\ script.pc = "scp"
    /\ \E ok \in BOOLEAN :
         script' = IF ok THEN [script EXCEPT !.pc = "ssh", !.cmds = @ + 1]
                   ELSE ScriptRaise([script EXCEPT !.cmds = @ + 1], "Command failed")
    /\ UNCHANGED <<ServerVars, mgr>>

\* lines 110-138: run_cmd(ssh_run, timeout=60 * 30), the destination out of stdout,
\* and the deadline of the polling; MaxPolls iterations fit before the deadline
ScriptSsh ==
    /\ script.pc = "ssh"
    /\ \E cmd \in {"ok", "failed", "timeout"} : \E stdout \in Stdouts :
         script' =
           IF cmd = "ok"
           THEN [script EXCEPT !.pc = "poll", !.cmds = @ + 1, !.stdout = stdout,
                               !.destination = stdout_destination(stdout),
                               !.polls = MaxPolls]
           ELSE ScriptRaise([script EXCEPT !.cmds = @ + 1],
                            IF cmd = "failed" THEN "Command failed"
                            ELSE "Command timed out")
    /\ UNCHANGED <<ServerVars, mgr>>

\* lines 140-173: one iteration of the polling loop
ScriptPoll ==
    /\ script.pc = "poll"
    /\ script.polls > 0
    /\ \/ \* no log file yet, or ls failed
          script' = [script EXCEPT !.cmds = @ + 1, !.polls = @ - 1]
       \/ \* tail -n 200 failed
          script' = [script EXCEPT !.cmds = @ + 2, !.polls = @ - 1,
                                   !.last_latest = LogPath]
       \/ \E log_content \in Logs :
            script' =
              IF marker_found(log_content)
              THEN [script EXCEPT
                      !.pc = "returned", !.cmds = @ + 2,
                      !.last_latest = LogPath, !.last_log_tail = log_content,
                      !.posted = script_send(script.posted, script.opts, "success",
                                             script.destination, NoErr),
                      !.ret = ScriptRet(script.stdout, script.destination, LogPath)]
              ELSE [script EXCEPT !.cmds = @ + 2, !.polls = @ - 1,
                                  !.last_latest = LogPath,
                                  !.last_log_tail = log_content]
    /\ UNCHANGED <<ServerVars, mgr>>

\* lines 175-179: the deadline has passed
ScriptDeadline ==
    /\ script.pc = "poll"
    /\ script.polls = 0
    /\ script' =
         [script EXCEPT
            !.pc = "returned",
            !.posted = script_send(script.posted, script.opts, "failed",
                                   script.destination,
                                   ErrMsg("Timeout waiting for success marker. Latest log tail:",
                                          script.last_log_tail)),
            !.ret = ScriptRet(script.stdout, script.destination, script.last_latest)]
    /\ UNCHANGED <<ServerVars, mgr>>

\* ------------------------------- actions: file_based_job_manager.py
SetCaller(t, caller) == [mgr EXCEPT !.th[t] = caller]

\* uuid.uuid4(): an id that no file and no other create_job has
FreshIds ==
    {u \in StoreJobIds : /\ mgr.files[u] = NoFile
                         /\ \A t \in StoreThreads : mgr.th[t].job_id # u}

\* a thread enters create_job, get_job or update_job
StoreCall(t) ==
    /\ mgr.th[t].pc = "idle"
    /\ \/ \E u \in FreshIds :
            mgr' = SetCaller(t, [IdleCaller EXCEPT !.pc = "create_lock", !.job_id = u])
       \/ \E u \in StoreJobIds :
            mgr' = SetCaller(t, [IdleCaller EXCEPT !.pc = "get_exists", !.job_id = u])
       \/ \E u \in StoreJobIds : \E status \in StoreStatuses :
            mgr' = SetCaller(t, [IdleCaller EXCEPT !.pc = "update_exists",
                                                   !.job_id = u, !.updates = status])
    /\ UNCHANGED <<ServerVars, script>>

\* create_job line 34: with self._lock
CreateAcquire(t) ==
    /\ mgr.th[t].pc = "create_lock"
    /\ mgr.lock = 0
    /\ mgr' = [mgr EXCEPT !.lock = t, !.th[t].pc = "create_open"]
    /\ UNCHANGED <<ServerVars, script>>

\* create_job line 35: open(job_file, 'w') makes the file, empty
CreateOpen(t) ==
    /\ mgr.th[t].pc = "create_open"
    /\ mgr' = [mgr EXCEPT !.files[mgr.th[t].job_id] = Truncated,
                          !.th[t].pc = "create_dump"]
    /\ UNCHANGED <<ServerVars, script>>

\* create_job lines 36-38: json.dump, the file is closed, the lock released
CreateDump(t) ==
    /\ mgr.th[t].pc = "create_dump"
    /\ mgr' = [mgr EXCEPT !.files[mgr.th[t].job_id] = GENERATING,
                          !.lock = 0,
                          !.th[t] = [IdleCaller EXCEPT !.result = "job_id"]]
    /\ UNCHANGED <<ServerVars, script>>

\* get_job lines 42-44: os.path.exists, without the lock
GetExists(t) ==
    /\ mgr.th[t].pc = "get_exists"
    /\ mgr' = IF mgr.files[mgr.th[t].job_id] = NoFile
              THEN SetCaller(t, [IdleCaller EXCEPT !.result = "None"])
              ELSE [mgr EXCEPT !.th[t].pc = "get_load"]
    /\ UNCHANGED <<ServerVars, script>>

\* get_job lines 46-47: json.load(f), without the lock; an empty file makes it
\* raise JSONDecodeError
GetLoad(t) ==
    /\ mgr.th[t].pc = "get_load"
    /\ mgr' = SetCaller(t, [IdleCaller EXCEPT !.result =
                              IF mgr.files[mgr.th[t].job_id] = Truncated
                              THEN "JSONDecodeError"
                              ELSE mgr.files[mgr.th[t].job_id]])
    /\ UNCHANGED <<ServerVars, script>>

\* update_job lines 63-65: os.path.exists, before the lock is taken
UpdateExists(t) ==
    /\ mgr.th[t].pc = "update_exists"
    /\ mgr' = IF mgr.files[mgr.th[t].job_id] = NoFile
              THEN SetCaller(t, [IdleCaller EXCEPT !.result = "False"])
              ELSE [mgr EXCEPT !.th[t].pc = "update_lock"]
    /\ UNCHANGED <<ServerVars, script>>

\* update_job line 67: with self._lock
UpdateAcquire(t) ==
    /\ mgr.th[t].pc = "update_lock"
    /\ mgr.lock = 0
    /\ mgr' = [mgr EXCEPT !.lock = t, !.th[t].pc = "update_load"]
    /\ UNCHANGED <<ServerVars, script>>

\* update_job lines 68-72: json.load(f), job.update(updates)
UpdateLoad(t) ==
    /\ mgr.th[t].pc = "update_load"
    /\ mgr' = [mgr EXCEPT !.th[t].job = mgr.files[mgr.th[t].job_id],
                          !.th[t].pc = "update_open"]
    /\ UNCHANGED <<ServerVars, script>>

\* update_job line 74: open(job_file, 'w') empties the file
UpdateOpen(t) ==
    /\ mgr.th[t].pc = "update_open"
    /\ mgr' = [mgr EXCEPT !.files[mgr.th[t].job_id] = Truncated,
                          !.th[t].pc = "update_dump"]
    /\ UNCHANGED <<ServerVars, script>>

\* update_job lines 75-77: json.dump, the file is closed, the lock released
UpdateDump(t) ==
    /\ mgr.th[t].pc = "update_dump"
    /\ mgr' = [mgr EXCEPT !.files[mgr.th[t].job_id] = mgr.th[t].updates,
                          !.lock = 0,
                          !.th[t] = [IdleCaller EXCEPT !.result = "True"]]
    /\ UNCHANGED <<ServerVars, script>>

\* ------------------------------------------------------------ specification
\* the server: validate requests, callbacks and the background runs
Next ==
    \/ \E t \in ReqThreads : trigger_feed_validation(t, MaxRequests)
    \/ \E t \in CbThreads : callback_receiver(t, MaxEnvCallbacks)
    \/ \E k \in TaskIds : background(k)

Spec == Init /\ [][Next]_vars

\* the server while every callback_url leads elsewhere and nobody posts to
\* /api/callback/feed: one job can be followed through all its retries
RetryNext ==
    \/ \E t \in ReqThreads : trigger_feed_validation(t, MaxRetryRequests)
    \/ \E k \in TaskIds : background(k)

RetrySpec == Init /\ [][RetryNext]_vars

\* the server under fair scheduling: a Flask handler that can take its next step
\* takes it, and so does a background thread
LiveNext ==
    \/ trigger_feed_validation(1, MaxLiveRequests)
    \/ \E t \in CbThreads : callback_receiver(t, MaxEnvCallbacks)
    \/ \E k \in TaskIds : background(k)

LiveSpec ==
    /\ Init
    /\ [][LiveNext]_vars
    /\ \A t \in CbThreads : WF_vars(CallbackActivity(t) \/ CallbackUpdate(t))

\* the server while other parties repeat callbacks: one request at a time, and
\* MaxRepeatCallbacks callbacks from outside
RepeatNext ==
    \/ trigger_feed_validation(1, MaxLiveRequests)
    \/ \E t \in CbThreads : callback_receiver(t, MaxRepeatCallbacks)
    \/ \E k \in TaskIds : background(k)

RepeatSpec == Init /\ [][RepeatNext]_vars

\* the server while two callbacks are handled at the same time
RaceNext ==
    \/ trigger_feed_validation(1, MaxLiveRequests)
    \/ \E t \in RaceCbThreads : callback_receiver(t, MaxEnvCallbacks)
    \/ \E k \in TaskIds : background(k)

RaceSpec == Init /\ [][RaceNext]_vars

\* a client that asks again only when no run is under way any more
ValidateAfterRun(t, max_requests) ==
    /\ req[t].pc = "idle" => LiveRuns = 0
    /\ trigger_feed_validation(t, max_requests)

\* callback_receiver while every callback_url of a run leads elsewhere: it is
\* other parties that post to /api/callback/feed
ForeignCallback(t, max_callbacks) ==
    /\ cb[t].pc = "idle" => task' = task
    /\ callback_receiver(t, max_callbacks)

\* the server with such a client and such callbacks: one job is followed through
\* its retries
ResetNext ==
    \/ ValidateAfterRun(1, MaxRetryRequests)
    \/ \E t \in CbThreads : ForeignCallback(t, MaxEnvCallbacks)
    \/ \E k \in TaskIds : background(k)

ResetSpec == Init /\ [][ResetNext]_vars

\* one call of run_script.execute_and_notify by a caller of its own (a test, a
\* deployment with remote workers)
ScriptNext ==
    \/ ScriptCall
    \/ ScriptScp
    \/ ScriptSsh
    \/ ScriptPoll
    \/ ScriptDeadline

ScriptSpec == Init /\ [][ScriptNext]_vars

\* the threads of the server inside the methods of the one FileBasedJobManager
StoreNext ==
    \E t \in StoreThreads :
       \/ StoreCall(t)
       \/ CreateAcquire(t)
       \/ CreateOpen(t)
       \/ CreateDump(t)
       \/ GetExists(t)
       \/ GetLoad(t)
       \/ UpdateExists(t)
       \/ UpdateAcquire(t)
       \/ UpdateLoad(t)
       \/ UpdateOpen(t)
       \/ UpdateDump(t)

StoreSpec == Init /\ [][StoreNext]_vars

\* ------------------------------------------------------------------ claims
\* the step is thread t's update_job of callback_receiver, on job u
IsCallbackUpdate(t, u) ==
    /\ cb[t].pc = "update" /\ cb'[t].pc = "idle"
    /\ cb[t].payload.job_id = u
    /\ new_status(cb[t].payload) # Missing

\* the step is the concluding update_job of background run k, on job u
IsBackgroundConclude(k, u) ==
    /\ task[k].pc = "conclude" /\ task'[k].pc = "done"
    /\ task[k].job_id = u

\* the step is thread t's update_job of an accepted retry, on job u
IsRetryUpdate(t, u) ==
    /\ req[t].pc = "retry_update" /\ req'[t].pc = "retry_activity"
    /\ req[t].backend_job_id = u

\* C1: a job's status changes only along validating -> validated and
\* validating -> validation_failed; no step moves a job from any other status to
\* a different one.
C1_StatusTable ==
    [][\A u \in Uuids :
         (jobs[u] # None /\ jobs'[u].status # jobs[u].status)
         => /\ jobs[u].status = VALIDATING
            /\ jobs'[u].status \in {VALIDATED, VALIDATION_FAILED}]_vars

\* C2: the record trigger_feed_validation creates for a new external id has status
\* 'validating' and retry_count 0, and a job leaves 'validating' only by the update
\* of a callback or by the concluding write of the dispatcher.
C2_NewJobValidating ==
    [][\A u \in Uuids :
         /\ (jobs[u] = None /\ jobs'[u] # None)
            => (jobs'[u].status = VALIDATING /\ jobs'[u].retry_count = 0)
         /\ (jobs[u] # None /\ jobs[u].status = VALIDATING
                            /\ jobs'[u].status # VALIDATING)
            => \/ \E t \in CbThreads : IsCallbackUpdate(t, u)
               \/ \E k \in TaskIds : IsBackgroundConclude(k, u)]_vars

\* the callback thread t is serving came from a dispatched run whose log had the
\* success marker and an 'Upload completed: s3://...' line, and is for job u
DeliveredSuccess(t, u) ==
    /\ cb[t].pc # "idle"
    /\ cb[t].from # 0
    /\ cb[t].payload.job_id = u
    /\ cb[t].payload.status = "success"
    /\ cb[t].payload.result.destination_s3_path # EmptyStr

\* C3: once the success callback of a local run whose log has the marker and the
\* upload line has reached callback_receiver, the job eventually has status
\* 'validated' and retry_count 0.
C3_SuccessCallbackValidates ==
    \A u \in Uuids :
        (\E t \in CbThreads : DeliveredSuccess(t, u))
        ~> (jobs[u] # None /\ jobs[u].status = VALIDATED /\ jobs[u].retry_count = 0)

\* a retried job's run succeeded and its callback has been applied: nobody else
\* posted a callback, and the run is over
C3_Witness ==
    /\ ncb = 0
    /\ \E u \in Uuids :
         /\ jobs[u] # None /\ jobs[u].status = VALIDATED /\ jobs[u].retry_count = 0
         /\ jobs[u].job_data.validation_destination_s3_path = UploadedPath
         /\ hist.last_callback[u] # None
         /\ hist.last_callback[u].payload.status = "success"
         /\ \E a \in DOMAIN activities : a.entity_id = u /\ a.action = "retry"
    /\ \A k \in TaskIds : task[k].pc \in {"none", "done"}

\* C4 as stated: the second of two applications in a row of one callback payload
\* leaves status and job_data.failure as the first left them.
C4_SecondApplicationChangesNothing ==
    [][\A t \in CbThreads : \A u \in Uuids :
         (IsCallbackUpdate(t, u) /\ SecondInARow(t))
         => /\ jobs'[u].status = jobs[u].status
            /\ jobs'[u].job_data.failure = jobs[u].job_data.failure]_vars

\* C4 as amended: the second application leaves the status as it was; it leaves
\* job_data.failure as it was too, except for a failed callback with a non-empty
\* err, which adds one more entry with that message to failure.validation_failed.
C4_SecondApplicationAppendsOnly ==
    [][\A t \in CbThreads : \A u \in Uuids :
         (IsCallbackUpdate(t, u) /\ SecondInARow(t))
         => /\ jobs'[u].status = jobs[u].status
            /\ jobs'[u].job_data.failure =
                 IF cb[t].payload.status = "failed" /\ cb[t].payload.err # ""
                 THEN [has_validation_failed |-> TRUE,
                       validation_failed |->
                          Append(jobs[u].job_data.failure.validation_failed,
                                 [code |-> "VALIDATION_ERROR",
                                  message |-> cb[t].payload.err])]
                 ELSE jobs[u].job_data.failure]_vars

\* a failed callback with an error message has been applied twice in a row
C4_Witness ==
    \E u \in Uuids :
        /\ hist.last_callback[u] # None
        /\ hist.last_callback[u].twice
        /\ hist.last_callback[u].payload.status = "failed"
        /\ hist.last_callback[u].payload.err # ""
        /\ Len(jobs[u].job_data.failure.validation_failed) = 2

\* C5: a validate request for an existing job goes on as a retry exactly when the
\* job it read has status validation_failed and retry_count < MAX_RETRY_COUNT;
\* otherwise it is answered with a 400.
C5_RetryGate ==
    [][\A t \in ReqThreads :
         LET job == get_job(jobs, req[t].backend_job_id) IN
         (req[t].pc = "get_job" /\ req'[t].pc # "get_job" /\ job # None)
         => /\ (req'[t].pc = "retry_update")
               <=> (job.status = VALIDATION_FAILED
                    /\ job.retry_count < MAX_RETRY_COUNT)
            /\ (req'[t].pc # "retry_update")
               => /\ req'[t].pc = "idle"
                  /\ response'.response_status = 400]_vars

\* a retry was accepted at retry_count = MAX_RETRY_COUNT - 1 and the next one,
\* at retry_count = MAX_RETRY_COUNT, was rejected
C5_Witness ==
    /\ response = Resp400(<<"Max retry count exceeded">>)
    /\ \E u \in Uuids :
         /\ jobs[u] # None
         /\ jobs[u].status = VALIDATION_FAILED
         /\ jobs[u].retry_count = MAX_RETRY_COUNT
    /\ \A t \in ReqThreads : req[t].pc = "idle"

C7_RetryRaisesByOne ==
    [][\A t \in ReqThreads : \A u \in Uuids :
         IsRetryUpdate(t, u)
         => /\ jobs'[u].status = VALIDATING
            /\ jobs'[u].retry_count = jobs[u].retry_count + 1]_vars

\* C8: at most one job record is created per external id, and an entry of
\* job_id_mapping never changes once it is set.
C8_OneJobPerExternalId ==
    [][/\ \A e \in ExtIds :
            job_id_mapping[e] # Absent => job_id_mapping'[e] = job_id_mapping[e]
       /\ \A u1, u2 \in Uuids :
            (/\ jobs'[u1] # None /\ jobs'[u2] # None
             /\ hist'.created_for[u1] = hist'.created_for[u2])
            => u1 = u2]_vars

\* the step answers a validate request with a 400: at once, or at the retry gate
ValidateAnswers400(t) ==
    /\ response' # None
    /\ response'.route = "/api/feed/validate"
    /\ response'.response_status = 400
    /\ \/ req[t].pc = "idle" /\ req' = req /\ nreq' = nreq + 1
       \/ req[t].pc = "get_job" /\ req'[t].pc = "idle"

\* C9: a validate request answered with a 400 has changed no job record, no
\* activity and no id mapping, and has started no run.
C9_RejectedValidateChangesNothing ==
    [][\A t \in ReqThreads :
         ValidateAnswers400(t)
         => /\ ~hist.reqWrote[t]
            /\ UNCHANGED <<jobs, activities, job_id_mapping,
                           reverse_job_id_mapping, task>>]_vars

\* a retry of a job that is not validation_failed has been answered with a 400
C9_Witness ==
    /\ response # None
    /\ response.route = "/api/feed/validate"
    /\ response.response_status = 400
    /\ response.err[1] = "Job cannot be retried in current status"
    /\ \E u \in Uuids : jobs[u] # None

\* the step answers a callback with a 400 or a 404: a callback arrived, and no
\* thread of callback_receiver got past the field check and get_job. (A run's own
\* callback has its three fields and names an existing job.)
CallbackRejected ==
    /\ ncb' = ncb + 1
    /\ cb' = cb
    /\ response' \in {CallbackResp(400), CallbackResp(404)}

\* C10: a callback answered with a 400 (job_id, type or status missing) or a 404 (no
\* job for its job_id) changes no job record and records no activity.
C10_RejectedCallbackChangesNothing ==
    [][CallbackRejected
       => UNCHANGED <<jobs, activities, job_id_mapping,
                      reverse_job_id_mapping>>]_vars

\* a callback for an unknown job has been answered with a 404 while a job exists
C10_Witness ==
    /\ response = CallbackResp(404)
    /\ ncb > 0
    /\ \E u \in Uuids : jobs[u] # None

\* the step receives a callback of another party whose job_id is the frontend id e
\* of a job that exists
ReceivesExternalId(e) ==
    /\ ncb' = ncb + 1
    /\ hist'.received = e
    /\ job_id_mapping[e] # Absent
    /\ jobs[job_id_mapping[e]] # None

\* C11: a callback whose job_id is the frontend id registered for an existing job
\* is taken up by callback_receiver for that job, as one with the backend id is.
C11_ExternalIdIsTranslated ==
    [][\A e \in ExtIds :
         ReceivesExternalId(e)
         => \E t \in CbThreads :
               /\ cb'[t].pc = "activity"
               /\ cb'[t].job = jobs[job_id_mapping[e]]]_vars

\* C12: every update that callback_receiver applies to a job for a success or a
\* failed callback leaves the job's retry_count at 0, whatever it was before.
C12_CallbackResetsRetryCount ==
    [][\A t \in CbThreads : \A u \in Uuids :
         IsCallbackUpdate(t, u) => jobs'[u].retry_count = 0]_vars

\* a failed callback has been applied to a job after a retry had raised its
\* retry_count, and the count is 0
C12_Witness ==
    \E u \in Uuids :
        /\ jobs[u] # None
        /\ jobs[u].retry_count = 0
        /\ jobs[u].status = VALIDATION_FAILED
        /\ hist.last_callback[u] # None
        /\ hist.last_callback[u].payload.status = "failed"
        /\ \E a \in DOMAIN activities : a.entity_id = u /\ a.action = "retry"

\* the step is send_callback of run k raising: the POST of its callback failed
DeliveryFails(k) ==
    /\ task[k].pc = "post"
    /\ task'[k] = AfterPostRaise(task[k])
    /\ cb' = cb
    /\ response' = response

\* C13: a callback that cannot be delivered is swallowed: the run posts no second
\* callback, and what it returns to background(), which decides whether
\* validation_failed is written, is what it would have returned anyway.
C13_DeliveryFailureSwallowed ==
    [][\A k \in TaskIds :
         DeliveryFails(k)
         => /\ task'[k].pc # "post"
            /\ task'[k].ret = task[k].ret]_vars

\* the server under fair scheduling of the background threads too: a POST of a
\* callback returns or raises (requests.post has a timeout), and background()
\* runs to its end; MaxLiveRequests requests start no more than that many runs,
\* for no more than that many jobs
LiveTaskIds == 1..MaxLiveRequests
RunSpec == LiveSpec /\ \A k \in LiveTaskIds : WF_vars(background(k))

\* run k, for job u, ended with an execution error: an except branch of
\* execute_locally is about to post the failed callback
EndedWithError(k, u) ==
    /\ task[k].pc = "post"
    /\ task[k].job_id = u
    /\ ~task[k].in_try
    /\ task[k].ret = RetError

\* C14: when a run has ended with an execution error, background() eventually
\* ends with the job's status set to validation_failed, whether or not the
\* failed callback can be delivered.
C14_ErrorLeadsToValidationFailed ==
    \A k \in LiveTaskIds : \A u \in {Uuid(n) : n \in LiveTaskIds} :
        EndedWithError(k, u)
        ~> (/\ task[k].pc = "done"
            /\ jobs[u] # None
            /\ jobs[u].status = VALIDATION_FAILED)

\* a run is over and its job is validation_failed, while no callback was ever
\* applied by this server: the failed callback was not delivered here
C14_Witness ==
    /\ ncb = 0
    /\ task[1].pc = "done"
    /\ \E u \in Uuids :
         /\ jobs[u] # None
         /\ jobs[u].status = VALIDATION_FAILED
         /\ jobs[u].job_data.failure = EmptyFailure
         /\ \A a \in DOMAIN activities : ~(a.entity_id = u /\ a.source = CALLBACK)

\* C15: a call of execute_and_notify for a remote run (not a mock one) posts no
\* 'success' callback: every callback it posts is a 'failed' one.
C15_RemoteNeverPostsSuccess ==
    (script.pc # "idle" /\ ~script.opts.mock)
    => \A i \in 1..Len(script.posted) : script.posted[i].status = "failed"

\* C16: for every backend id u that has an entry in reverse_job_id_mapping,
\* job_id_mapping leads from that frontend id back to u.
C16_RoundTrip ==
    \A u \in Uuids :
        reverse_job_id_mapping[u] # Absent
        => job_id_mapping[reverse_job_id_mapping[u]] = u

\* the step is thread t returning the 200 of an accepted request
Accepts(t) ==
    /\ req[t].pc \in {"retry_dispatch", "new_dispatch"}
    /\ req'[t].pc = "idle"
    /\ response' = Resp200

\* C17: the 200 of an accepted request, new job or retry, is returned by a handler
\* that has not slept the retry delay, and when no step of the run it started
\* has been taken.
C17_ResponseDoesNotWait ==
    [][\A t \in ReqThreads :
         Accepts(t)
         => /\ ~hist.reqSlept[t]
            /\ \E k \in TaskIds : task[k].pc = "none" /\ task'[k].pc = "start"]_vars

\* the call in progress is a mock one
MockCall == script.pc # "idle" /\ script.opts.mock

\* C18 as stated: a mock call runs no command and polls no log, and posts exactly
\* one callback: a 'success' one with the given job_id and with the destination
\* that the call returns.
C18_MockPostsOneSuccess ==
    MockCall
    => /\ script.pc = "returned"
       /\ script.cmds = 0
       /\ script.last_latest = Absent
       /\ Len(script.posted) = 1
       /\ script.posted[1].status = "success"
       /\ script.posted[1].job_id = script.opts.job_id
       /\ script.posted[1].result.destination_s3_path = script.ret.destination

\* C18 as amended: a mock call runs no command and polls no log; with a
\* callback_url it posts exactly one callback, a 'success' one with the given
\* job_id and with the destination that the call returns; without a callback_url
\* it posts none.
C18_MockPostsOneSuccessIfUrl ==
    MockCall
    => /\ script.pc = "returned"
       /\ script.cmds = 0
       /\ script.last_latest = Absent
       /\ script.ret.destination = MockDestination
       /\ IF script.opts.callback_url
          THEN /\ Len(script.posted) = 1
               /\ script.posted[1].status = "success"
               /\ script.posted[1].job_id = script.opts.job_id
               /\ script.posted[1].result.destination_s3_path = script.ret.destination
          ELSE script.posted = <<>>

\* a mock call with a callback_url has returned and has posted its callback
C18_Witness ==
    /\ MockCall
    /\ script.opts.callback_url
    /\ script.pc = "returned"
    /\ Len(script.posted) = 1

\* run k found the success marker in its log: parse_log_for_upload gave True or
\* the uploaded path
FoundMarker(k) == task[k].ret # None /\ task[k].ret.key \in {"success", "destination"}

\* C19: a local run that found the success marker in its log, with or without
\* an 'Upload completed' line, posts a 'success' callback, and the concluding
\* step of background() does not write validation_failed for it.
C19_MarkerMeansSuccess ==
    [][\A k \in TaskIds :
         /\ (task[k].pc = "post" /\ FoundMarker(k)) => task[k].send.status = "success"
         /\ (task[k].pc = "conclude" /\ task'[k].pc = "done") => ~FoundMarker(k)]_vars

\* run k found no log file of its own in logs_dir after the worker had exited
NoLogRun(k) == task[k].pc = "post" /\ task[k].no_log /\ task[k].in_try

\* C20: a local run that found no log file is not reported as success: it
\* posts the failed callback that a run without the marker in its log posts, and
\* returns an error, so that background() writes validation_failed.
C20_NoLogIsFailure ==
    \A k \in TaskIds :
        NoLogRun(k)
        => /\ task[k].send = local_outcome(task[k].job_id, Absent).send
           /\ task[k].ret = RetError

\* the remote run has returned and the log it fetched never had the success marker
ReturnedWithoutMarker ==
    /\ script.pc = "returned"
    /\ ~script.opts.mock
    /\ ~marker_found(script.last_log_tail)

\* C21: a run whose worker command succeeded and whose log never had the success
\* marker reports failure only when the deadline of the polling has passed; what
\* it reports has no destination path, and has the last log tail it saw.
C21_FailureOnlyAtDeadline ==
    ReturnedWithoutMarker
    => /\ script.polls = 0
       /\ script.ret.destination = Absent
       /\ \A i \in 1..Len(script.posted) :
            /\ script.posted[i].status = "failed"
            /\ script.posted[i].result.destination_s3_path = EmptyStr
            /\ script.posted[i].err.tail = script.last_log_tail


\* the remote run has returned after it fetched a log with the success marker
\* and the line 'Upload completed: s3://b/p'
ReturnedWithUploadInLog ==
    /\ script.pc = "returned"
    /\ ~script.opts.mock
    /\ marker_found(script.last_log_tail)
    /\ \E i \in 1..Len(script.last_log_tail) :
         script.last_log_tail[i] = Upload(UploadedPath)

\* C22: when the fetched log has the success marker and the line
\* 'Upload completed: s3://b/p', the run ends as success and the destination in
\* its return value and in its success callback is the path s3://b/p of that line.
C22_DestinationFromLog ==
    ReturnedWithUploadInLog
    => /\ script.ret.destination = UploadedPath
       /\ \A i \in 1..Len(script.posted) :
            /\ script.posted[i].status = "success"
            /\ script.posted[i].result.destination_s3_path = UploadedPath


\* the error texts of a worker command that failed or timed out
CommandErrors == {"Command failed", "Script execution timed out"}

\* run k's worker command failed and its callback is being sent or is sent
CommandFailed(k) ==
    /\ task[k].pc \in {"post", "wait"}
    /\ task[k].send.err \in CommandErrors

InCriticalSection(t) == mgr.lock = t

\* the step is thread t's file access of get_job, or the existence check of
\* update_job
UnlockedAccess(t) ==
    /\ mgr.th[t].pc \in {"get_exists", "get_load", "update_exists"}
    /\ mgr'.th[t] # mgr.th[t]

\* C24: no read of get_job and no existence check of update_job happens while
\* another thread is inside the critical section of create_job or update_job,
\* and no reader gets a record that is being rewritten.
C24_StoreAccessExclusive ==
    [][\A t \in StoreThreads :
         /\ UnlockedAccess(t) => \A o \in StoreThreads \ {t} : ~InCriticalSection(o)
         /\ mgr'.th[t].result # "JSONDecodeError"]_vars


\* C25: the fetch-modify-write of callback_receiver is atomic: its update_job
\* writes the job_data that the callback makes of the job_data in the store at
\* that moment, so no failure entry of a concurrent callback is lost and the
\* paths of a concurrent retry are not overwritten by the snapshot read earlier.
C25_CallbackWriteIsAtomic ==
    [][\A t \in RaceCbThreads : \A u \in Uuids :
         IsCallbackUpdate(t, u)
         => jobs'[u].job_data = callback_job_data(jobs[u].job_data, cb[t].payload)]_vars


\* the background runs for job u that are started and not finished
RunsInFlight(u) ==
    {k \in TaskIds : task[k].pc \notin {"none", "done"} /\ task[k].job_id = u}

\* C26: at most one run of a job is in flight at any time: no run for a job is
\* started while an earlier run for it is unfinished, so the concluding status
\* write of a run never lands on a job for which a later run is already started.
C26_OneRunPerJob == \A u \in Uuids : Cardinality(RunsInFlight(u)) <= 1


\* the executions dispatched for job u so far: one for each 'validation_trigger'
\* and each 'retry' activity, less the retries that have not reached their
\* dispatch yet
Dispatched(u) ==
    CopiesIn([entity_id |-> u, source |-> UI, action |-> "validation_trigger"],
             activities)
    + CopiesIn([entity_id |-> u, source |-> UI, action |-> "retry"], activities)
    - Cardinality({t \in ReqThreads :
                     /\ req[t].pc \in {"retry_delay", "retry_dispatch"}
                     /\ req[t].backend_job_id = u})

\* C27: for one job, the executions ever dispatched (the first run and the
\* accepted retries) are at most maxRetryCount + 1.
C27_DispatchesBounded == \A u \in Uuids : Dispatched(u) <= MAX_RETRY_COUNT + 1


\* the step ends a callback attempt of run k, or hands it to this server
CallbackAttempted(k) ==
    /\ task[k].pc \in {"post", "wait"}
    /\ task'[k] # task[k]

\* C28: a run attempts at most one callback, whatever the endpoint answers: once
\* it has attempted one, it never comes to send another, so it never sends a
\* 'success' and a 'failed' callback both.
C28_OneCallbackPerRun ==
    [][\A k \in TaskIds : CallbackAttempted(k) => task'[k].pc # "post"]_vars


\* the step is one of thread t handling a callback for an existing job whose
\* type and status are not in the transition table
HandlesOutsideTable(t) ==
    /\ cb[t].pc # "idle"
    /\ new_status(cb[t].payload) = Missing
    /\ cb'[t] # cb[t]

\* C29: a callback for an existing job whose type/status pair is not in the
\* transition table leaves the store unchanged: the job's status, retry_count
\* and job_data are not modified and no activity is recorded for it.
C29_OutsideTableChangesNothing ==
    [][\A t \in CbThreads :
         HandlesOutsideTable(t) => jobs' = jobs /\ activities' = activities]_vars

====
